---- MODULE Spec2Model ----
(***************************************************************************)
(* Model of epan/export_object.c: the export-object registry               *)
(* (register_export_object, get_eo_by_name, eo_iterate_tables) and the     *)
(* file-name sanitizer (eo_massage_str, eo_rename).                        *)
(*                                                                         *)
(* A C string is a sequence of byte values 1..255 (the terminating NUL is  *)
(* not stored).  A NULL pointer is 0 where a pointer is an index or an     *)
(* address, and the string "NULL" where it is a callback.                  *)
(***************************************************************************)
EXTENDS Integers, Sequences, FiniteSets, TLC

VARIABLES
    registered_eo_tables,  \* the GSList of register_eo_t records, head first
    tap_dissector_list,    \* names known to the tap system, in registration order
    last,                  \* the last call made on the registry and what it returned
    visited,               \* the calls g_slist_foreach made to the visitor
    aborted,               \* TRUE once DISSECTOR_ASSERT has failed
    in_str,                \* eo_massage_str: argument in_str
    maxlen,                \* eo_massage_str: argument maxlen
    dupn,                  \* eo_massage_str: argument dupn
    out_str,               \* eo_massage_str: the returned GString
    pc                     \* "call" before eo_massage_str ran, "done" after

vars == <<registered_eo_tables, tap_dissector_list, last, visited, aborted,
          in_str, maxlen, dupn, out_str, pc>>

registry_vars == <<registered_eo_tables, tap_dissector_list, last, visited, aborted>>

sanitizer_vars == <<in_str, maxlen, dupn, out_str, pc>>

-----------------------------------------------------------------------------
(* Bounds of the model *)

\* longest short candidate name drawn exhaustively over Alphabet
MaxNameLen == 4

\* largest small maxlen tried (0..MaxSmallMaxLen)
MaxSmallMaxLen == 5

\* long names are built from PadMargin bytes below EXPORT_OBJECT_MAXFILELEN upward
PadMargin == 4

\* number of register_export_object calls in one run
MaxRegs == 3

-----------------------------------------------------------------------------
(* C library and GLib string primitives, as the code uses them *)

Min(a, b) == IF a <= b THEN a ELSE b

\* gsize is an unsigned type: differences wrap around.  TLC's integers are
\* 32 bits wide, so the modulus 2^64 (2^32 on ILP32) is represented by 2^30;
\* every string of the model is shorter than that, as every string in memory
\* is shorter than 2^64, so a wrapped difference exceeds every length in both.
GSizeModulus == 2^30

GSizeSub(a, b) == (a - b) % GSizeModulus

\* strlen / GString.len
StrLen(s) == Len(s)

\* the tail of s starting at 1-based index p (a char* into s)
StrFrom(s, p) == SubSeq(s, p, Len(s))

\* strpbrk(s, accept): index of the first byte of s that is in accept, 0 for NULL
strpbrk(s, accept) ==
    IF \E i \in 1..Len(s) : s[i] \in accept
    THEN CHOOSE i \in 1..Len(s) :
            /\ s[i] \in accept
            /\ \A j \in 1..(i - 1) : s[j] \notin accept
    ELSE 0

\* strrchr(s, c): index of the last occurrence of c in s, 0 for NULL
strrchr(s, c) ==
    IF \E i \in 1..Len(s) : s[i] = c
    THEN CHOOSE i \in 1..Len(s) :
            /\ s[i] = c
            /\ \A j \in (i + 1)..Len(s) : s[j] # c
    ELSE 0

\* g_string_truncate(string, len): string->len = MIN(len, string->len)
g_string_truncate(s, len) == SubSeq(s, 1, Min(len, Len(s)))

\* one hexadecimal digit as printf's %x prints it: 0-9, a-f
HexDigit(d) == IF d < 10 THEN 48 + d ELSE 87 + d

RECURSIVE HexStr(_)
\* printf("%x", v), v >= 0
HexStr(v) == IF v < 16 THEN <<HexDigit(v)>> ELSE HexStr(v \div 16) \o <<HexDigit(v % 16)>>

RECURSIVE ZeroPad(_, _)
\* printf's 0 flag with a minimum field width
ZeroPad(s, width) == IF Len(s) >= width THEN s ELSE ZeroPad(<<48>> \o s, width)

RECURSIVE DecStr(_)
\* printf("%d", n)
DecStr(n) ==
    IF n < 0 THEN <<45>> \o DecStr(-n)
    ELSE IF n < 10 THEN <<48 + n>>
    ELSE DecStr(n \div 10) \o <<48 + (n % 10)>>

\* FormatPercent02x with a fault: "%%%x", no zero padding
FormatPercent02x_unpadded(c) == <<37>> \o HexStr(c)

\* what g_string_append_printf(out_str, "%%%02x", c) appends
FormatPercent02x(c) == <<37>> \o ZeroPad(HexStr(c), 2)

-----------------------------------------------------------------------------
(* The file-name sanitizer *)

\* #define EXPORT_OBJECT_MAXFILELEN in epan/export_object.h
EXPORT_OBJECT_MAXFILELEN == 255

\* reject with a fault: the control bytes are left out
reject_punctuation_only == {60, 62, 58, 34, 47, 92, 124, 63, 42}

\* the bytes of the string literal `reject': < > : " / \ | ? * and 0x01-0x1f
reject == {60, 62, 58, 34, 47, 92, 124, 63, 42} \cup (1..31)

\* "(" followed by printf("%d)", dupn)
dup_suffix(n) == <<40>> \o DecStr(n) \o <<41>>

eo_rename(gstr, n) ==
    LET gstr_tmp == dup_suffix(n)
        tmp_ptr  == strrchr(gstr, 46)
    IN  IF tmp_ptr # 0
        THEN LET ext_str == StrFrom(gstr, tmp_ptr)
                 g1      == g_string_truncate(gstr, GSizeSub(Len(gstr), Len(ext_str)))
                 room    == GSizeSub(EXPORT_OBJECT_MAXFILELEN,
                                     (StrLen(gstr_tmp) + Len(ext_str)) % GSizeModulus)
                 g2      == IF Len(g1) >= room THEN g_string_truncate(g1, room) ELSE g1
             IN  g2 \o gstr_tmp \o ext_str
        ELSE LET room == GSizeSub(EXPORT_OBJECT_MAXFILELEN, StrLen(gstr_tmp))
                 g2   == IF Len(gstr) >= room THEN g_string_truncate(gstr, room) ELSE gstr
             IN  g2 \o gstr_tmp

RECURSIVE escape_loop(_, _)
\* the while loop of eo_massage_str and the g_string_append after it
escape_loop(rest, out) ==
    LET tmp_ptr == strpbrk(rest, reject)
    IN  IF tmp_ptr # 0
        THEN escape_loop(StrFrom(rest, tmp_ptr + 1),
                         out \o SubSeq(rest, 1, tmp_ptr - 1) \o FormatPercent02x(rest[tmp_ptr]))
        ELSE out \o rest

\* enforce_maxlen with a fault: a name without '.' is cut one byte too late
enforce_maxlen_off_by_one(s, max) ==
    IF Len(s) > max
    THEN LET tmp_ptr == strrchr(s, 46)
         IN  IF tmp_ptr # 0
             THEN LET ext_str == StrFrom(s, tmp_ptr)
                  IN  g_string_truncate(s, GSizeSub(max, Len(ext_str))) \o ext_str
             ELSE g_string_truncate(s, (max + 1) % GSizeModulus)
    ELSE s

\* if ( out_str->len > maxlen ) { ... }
enforce_maxlen(s, max) ==
    IF Len(s) > max
    THEN LET tmp_ptr == strrchr(s, 46)
         IN  IF tmp_ptr # 0
             THEN LET ext_str == StrFrom(s, tmp_ptr)
                  IN  g_string_truncate(s, GSizeSub(max, Len(ext_str))) \o ext_str
             ELSE g_string_truncate(s, max)
    ELSE s

eo_massage_str(str, max, n) ==
    LET filtered == escape_loop(str, <<>>)
        enforced == enforce_maxlen(filtered, max)
    IN  IF n # 0 THEN eo_rename(enforced, n) ELSE enforced

-----------------------------------------------------------------------------
(* Inputs of the sanitizer *)

\* a safe letter, '.', a rejected punctuation byte, a rejected control byte
Alphabet == {97, 46, 60, 10}

RECURSIVE StringsUpTo(_)
StringsUpTo(n) ==
    IF n = 0 THEN {<<>>}
    ELSE LET shorter == StringsUpTo(n - 1)
         IN  shorter \cup {Append(s, c) : s \in {t \in shorter : Len(t) = n - 1}, c \in Alphabet}

\* n times the letter 'a'
Pad(n) == [i \in 1..n |-> 97]

\* the names the documentation uses as examples:
\* "name.txt", "averylongname.txt", "nodotnamehere", "a<b", "file\x01name"
ExampleNames ==
    { <<110, 97, 109, 101, 46, 116, 120, 116>>,
      <<97, 118, 101, 114, 121, 108, 111, 110, 103, 110, 97, 109, 101, 46, 116, 120, 116>>,
      <<110, 111, 100, 111, 116, 110, 97, 109, 101, 104, 101, 114, 101>>,
      <<97, 60, 98>>,
      <<102, 105, 108, 101, 1, 110, 97, 109, 101>> }

\* names about as long as EXPORT_OBJECT_MAXFILELEN, with a short or a long extension
LongNames ==
    { head \o Pad(n) \o tail :
        head \in {<<>>, <<46>>, <<97, 46>>},
        n \in (EXPORT_OBJECT_MAXFILELEN - PadMargin)..(EXPORT_OBJECT_MAXFILELEN + 1),
        tail \in {<<>>, <<46, 97>>, <<60>>} }

Names == StringsUpTo(MaxNameLen) \cup ExampleNames \cup LongNames

MaxLens == (0..MaxSmallMaxLen) \cup {10, 100, EXPORT_OBJECT_MAXFILELEN}

DupIndexes == {0, 2, 10, -1}

-----------------------------------------------------------------------------
(* The registry *)

NULL == "NULL"

\* proto_get_protocol_filter_name (epan/proto.c): the filter name of each
\* registered protocol; no two protocols share a filter name.
\* 1 "b", 2 "Ab", 3 "a", 4 "ac"
FilterNames == << <<98>>, <<65, 98>>, <<97>>, <<97, 99>> >>

ProtoIds == 1..Len(FilterNames)

proto_get_protocol_filter_name(proto_id) == FilterNames[proto_id]

\* the packet callbacks and reset callbacks a dissector may pass
PacketFuncs == {NULL, "eo_packet"}

ResetFuncs == {NULL, "eo_reset"}

\* the user_data values passed to eo_iterate_tables
UserData == {"ud1", "ud2"}

\* the names looked up: every filter name, its case variants, unknown names
\* "b" "Ab" "a" "ac"; "B" "ab" "AB" "A" "AC"; "c" "" "abc"
LookupNames ==
    { FilterNames[p] : p \in ProtoIds }
        \cup { <<66>>, <<97, 98>>, <<65, 66>>, <<65>>, <<65, 67>> }
        \cup { <<99>>, <<>>, <<97, 98, 99>> }

\* g_ascii_tolower
g_ascii_tolower(c) == IF c >= 65 /\ c <= 90 THEN c + 32 ELSE c

\* the byte of s at 1-based index i, the terminating NUL past the end
ByteAt(s, i) == IF i <= Len(s) THEN s[i] ELSE 0

\* strcmp(s1, s2): difference of the first bytes that differ, 0 when equal
strcmp(s1, s2) ==
    LET n    == Min(Len(s1), Len(s2)) + 1
        diff == {i \in 1..n : ByteAt(s1, i) # ByteAt(s2, i)}
    IN  IF diff = {} THEN 0
        ELSE LET i == CHOOSE k \in diff : \A j \in diff : k <= j
             IN  ByteAt(s1, i) - ByteAt(s2, i)

\* g_ascii_strcasecmp(s1, s2): as strcmp, on the bytes folded to lower case
g_ascii_strcasecmp(s1, s2) ==
    LET n    == Min(Len(s1), Len(s2)) + 1
        diff == {i \in 1..n : g_ascii_tolower(ByteAt(s1, i)) # g_ascii_tolower(ByteAt(s2, i))}
    IN  IF diff = {} THEN 0
        ELSE LET i == CHOOSE k \in diff : \A j \in diff : k <= j
             IN  g_ascii_tolower(ByteAt(s1, i)) - g_ascii_tolower(ByteAt(s2, i))

\* insert_sorted_by_table_name with a fault: a case-sensitive comparison
insert_sorted_case_sensitive(a, b) ==
    strcmp(proto_get_protocol_filter_name(a.proto_id),
           proto_get_protocol_filter_name(b.proto_id))

insert_sorted_by_table_name(a, b) ==
    g_ascii_strcasecmp(proto_get_protocol_filter_name(a.proto_id),
                       proto_get_protocol_filter_name(b.proto_id))

\* g_slist_insert_sorted(list, data, insert_sorted_by_table_name): data goes
\* before the first element it does not compare greater than, else at the end
g_slist_insert_sorted(list, data) ==
    LET before == {i \in 1..Len(list) : insert_sorted_by_table_name(data, list[i]) <= 0}
    IN  IF before = {} THEN Append(list, data)
        ELSE LET i == CHOOSE k \in before : \A j \in before : k <= j
             IN  SubSeq(list, 1, i - 1) \o <<data>> \o SubSeq(list, i, Len(list))

\* tap_listen_str with a fault: the filter name is left out
tap_listen_str_without_name(proto_id) == <<95, 101, 111>>

\* g_strdup_printf("%s_eo", proto_get_protocol_filter_name(proto_id))
tap_listen_str(proto_id) == proto_get_protocol_filter_name(proto_id) \o <<95, 101, 111>>

\* register_tap (epan/tap.c): the token of a tap name is its position in the
\* list of tap names; a name not yet known is added at the end
TapId(taps, name) ==
    IF \E i \in 1..Len(taps) : taps[i] = name
    THEN CHOOSE i \in 1..Len(taps) : taps[i] = name
    ELSE Len(taps) + 1

register_tap(taps, name) ==
    IF \E i \in 1..Len(taps) : taps[i] = name THEN taps ELSE Append(taps, name)

\* the record of a call: the function, its arguments, its return value
Call(fn, proto_id, eo_func, name, ret) ==
    [fn |-> fn, proto_id |-> proto_id, eo_func |-> eo_func, name |-> name, ret |-> ret]

NoCall == Call("none", 0, NULL, <<>>, 0)

\* register_export_object with a fault: DISSECTOR_ASSERT is left out
register_export_object_unchecked(proto_id, export_packet_func, reset_cb) ==
    /\ ~aborted
    /\ Len(registered_eo_tables) < MaxRegs
    /\ LET table == [addr           |-> Len(registered_eo_tables) + 1,
                     proto_id       |-> proto_id,
                     tap_listen_str |-> tap_listen_str(proto_id),
                     eo_func        |-> export_packet_func,
                     reset_cb       |-> reset_cb]
       IN  /\ registered_eo_tables' = g_slist_insert_sorted(registered_eo_tables, table)
           /\ tap_dissector_list' = register_tap(tap_dissector_list, table.tap_listen_str)
           /\ last' = Call("register_export_object", proto_id, export_packet_func, <<>>,
                           TapId(tap_dissector_list, table.tap_listen_str))
    /\ aborted' = (export_packet_func = NULL)
    /\ visited' = <<>>
    /\ UNCHANGED sanitizer_vars

\* a register_eo_t is a record; addr is the address g_new returned (the n-th
\* allocation has address n), which is what a register_eo_t* holds
register_export_object(proto_id, export_packet_func, reset_cb) ==
    /\ ~aborted
    /\ Len(registered_eo_tables) < MaxRegs
    /\ IF export_packet_func = NULL
       THEN \* DISSECTOR_ASSERT fails: nothing after it runs
            /\ aborted' = TRUE
            /\ last' = Call("register_export_object", proto_id, export_packet_func, <<>>, 0)
            /\ UNCHANGED <<registered_eo_tables, tap_dissector_list>>
       ELSE LET table == [addr           |-> Len(registered_eo_tables) + 1,
                          proto_id       |-> proto_id,
                          tap_listen_str |-> tap_listen_str(proto_id),
                          eo_func        |-> export_packet_func,
                          reset_cb       |-> reset_cb]
            IN  /\ registered_eo_tables' = g_slist_insert_sorted(registered_eo_tables, table)
                /\ tap_dissector_list' = register_tap(tap_dissector_list, table.tap_listen_str)
                /\ last' = Call("register_export_object", proto_id, export_packet_func, <<>>,
                                TapId(tap_dissector_list, table.tap_listen_str))
                /\ aborted' = FALSE
    /\ visited' = <<>>
    /\ UNCHANGED sanitizer_vars

\* the register_eo_t a pointer refers to
Deref(eo) == CHOOSE e \in {registered_eo_tables[i] : i \in 1..Len(registered_eo_tables)} : e.addr = eo

get_eo_proto_id(eo) == IF eo = 0 THEN -1 ELSE Deref(eo).proto_id

get_eo_tap_listener_name(eo) == Deref(eo).tap_listen_str

get_eo_packet_func(eo) == Deref(eo).eo_func

get_eo_reset_func(eo) == Deref(eo).reset_cb

\* get_eo_by_name with a fault: the names are compared ignoring case
get_eo_by_name_ignoring_case(name) ==
    LET hits == {i \in 1..Len(registered_eo_tables) :
                    g_ascii_strcasecmp(name,
                        proto_get_protocol_filter_name(registered_eo_tables[i].proto_id)) = 0}
    IN  IF hits = {} THEN 0
        ELSE registered_eo_tables[CHOOSE k \in hits : \A j \in hits : k <= j].addr

\* the first element, from the head, whose filter name strcmp finds equal
get_eo_by_name(name) ==
    LET hits == {i \in 1..Len(registered_eo_tables) :
                    strcmp(name,
                        proto_get_protocol_filter_name(registered_eo_tables[i].proto_id)) = 0}
    IN  IF hits = {} THEN 0
        ELSE registered_eo_tables[CHOOSE k \in hits : \A j \in hits : k <= j].addr

\* g_slist_foreach(list, func, user_data): func(data, user_data) for each
\* element from the head on
g_slist_foreach(list, user_data) ==
    [i \in 1..Len(list) |-> [data |-> list[i].addr, user_data |-> user_data]]

LookupByName(name) ==
    /\ ~aborted
    /\ last' = Call("get_eo_by_name", 0, NULL, name, get_eo_by_name(name))
    /\ visited' = <<>>
    /\ UNCHANGED <<registered_eo_tables, tap_dissector_list, aborted>>
    /\ UNCHANGED sanitizer_vars

eo_iterate_tables(user_data) ==
    /\ ~aborted
    /\ visited' = g_slist_foreach(registered_eo_tables, user_data)
    /\ last' = Call("eo_iterate_tables", 0, NULL, <<>>, 0)
    /\ UNCHANGED <<registered_eo_tables, tap_dissector_list, aborted>>
    /\ UNCHANGED sanitizer_vars

RegistryIdle ==
    /\ registered_eo_tables = <<>>
    /\ tap_dissector_list = <<>>
    /\ last = NoCall
    /\ visited = <<>>
    /\ aborted = FALSE

SanitizerIdle ==
    /\ in_str = <<>>
    /\ maxlen = 0
    /\ dupn = 0
    /\ out_str = <<>>
    /\ pc = "idle"

Init == RegistryIdle /\ SanitizerIdle

Register ==
    \E proto_id \in ProtoIds, export_packet_func \in PacketFuncs, reset_cb \in ResetFuncs :
        register_export_object(proto_id, export_packet_func, reset_cb)

Lookup == \E name \in LookupNames : LookupByName(name)

Iterate == \E user_data \in UserData : eo_iterate_tables(user_data)

Next == Register \/ Lookup \/ Iterate

Spec == Init /\ [][Next]_vars

-----------------------------------------------------------------------------
(* Specification of the sanitizer: one call of eo_massage_str on each input *)

InitSanitize ==
    /\ RegistryIdle
    /\ in_str \in Names
    /\ maxlen \in MaxLens
    /\ dupn \in DupIndexes
    /\ out_str = <<>>
    /\ pc = "call"

Massage ==
    /\ pc = "call"
    /\ out_str' = eo_massage_str(in_str, maxlen, dupn)
    /\ pc' = "done"
    /\ UNCHANGED <<in_str, maxlen, dupn>>
    /\ UNCHANGED registry_vars

NextSanitize == Massage

SpecSanitize == InitSanitize /\ [][NextSanitize]_vars

-----------------------------------------------------------------------------
(* The documented contract of the sanitizer, stated byte by byte *)

\* the documented reject set: < > : " / \ | ? * and the control bytes 0x01-0x1F
RejectSet == {c \in 1..255 : c <= 31 \/ c \in {60, 62, 58, 34, 47, 92, 124, 63, 42}}

\* the sixteen lowercase hexadecimal digits, '0'..'9' 'a'..'f'
HexTable == <<48, 49, 50, 51, 52, 53, 54, 55, 56, 57, 97, 98, 99, 100, 101, 102>>

\* a rejected byte becomes '%' and two hex digits, any other byte is kept
EscapeByte(c) ==
    IF c \in RejectSet
    THEN <<37, HexTable[(c \div 16) + 1], HexTable[(c % 16) + 1]>>
    ELSE <<c>>

RECURSIVE Escaped(_)
\* the concatenation of EscapeByte over the bytes of s, in order
Escaped(s) ==
    IF Len(s) = 0 THEN <<>>
    ELSE IF Len(s) = 1 THEN EscapeByte(s[1])
    ELSE LET h == Len(s) \div 2
         IN  Escaped(SubSeq(s, 1, h)) \o Escaped(SubSeq(s, h + 1, Len(s)))

\* index of the last '.' of s, 0 when s has none
LastDot(s) ==
    LET dots == {i \in 1..Len(s) : s[i] = 46}
    IN  IF dots = {} THEN 0 ELSE CHOOSE i \in dots : \A j \in dots : j <= i

\* everything from the last '.' onward, empty when s has no '.'
Extension(s) == IF LastDot(s) = 0 THEN <<>> ELSE SubSeq(s, LastDot(s), Len(s))

\* what precedes the extension
Stem(s) == SubSeq(s, 1, Len(s) - Len(Extension(s)))

IsPrefix(p, s) == Len(p) <= Len(s) /\ SubSeq(s, 1, Len(p)) = p

EndsWith(s, e) == Len(e) <= Len(s) /\ SubSeq(s, Len(s) - Len(e) + 1, Len(s)) = e

HasRejected(s) == \E i \in 1..Len(s) : s[i] \in RejectSet

\* C1: the string returned by eo_massage_str is never longer than maxlen,
\* whatever the name, maxlen and dupn.
C1_LengthWithinMaxlen == pc = "done" => Len(out_str) <= maxlen

\* C2: the string returned by eo_massage_str contains no byte of the reject
\* set, also when truncation cut an escape sequence or "(N)" was inserted.
C2_NoRejectedByte == pc = "done" => ~HasRejected(out_str)

\* a rejected byte was escaped, the truncation to maxlen cut its escape
\* sequence right after the '%', and the "(N)" suffix was appended to that
C2_Witness ==
    /\ pc = "done"
    /\ dupn # 0
    /\ HasRejected(in_str)
    /\ LastDot(Escaped(in_str)) = 0
    /\ maxlen >= 1
    /\ Len(Escaped(in_str)) > maxlen
    /\ Escaped(in_str)[maxlen] = 37
    /\ Len(out_str) > maxlen
    /\ out_str[maxlen] = 37
    /\ out_str[maxlen + 1] = 40

\* C6: with dupn = 0, a name whose escaped form is longer than maxlen and has
\* a '.' comes back ending with the extension, beginning with a prefix of the
\* stem, and exactly maxlen bytes long, for every maxlen.
C6_ExtensionKept ==
    (pc = "done" /\ dupn = 0 /\ Len(Escaped(in_str)) > maxlen /\ LastDot(Escaped(in_str)) # 0)
    => LET F   == Escaped(in_str)
           ext == Extension(F)
       IN  /\ EndsWith(out_str, ext)
           /\ IsPrefix(SubSeq(out_str, 1, Len(out_str) - Len(ext)), Stem(F))
           /\ Len(out_str) = maxlen

\* C7: with dupn = N # 0 the result is stem' + "(N)" + ext, ext being the
\* extension of the length-enforced name, "(N)" and ext whole, and stem' the
\* stem cut just enough for the total not to exceed maxlen.
C7_SuffixWithinMaxlen ==
    (pc = "done" /\ dupn # 0)
    => LET E    == enforce_maxlen(escape_loop(in_str, <<>>), maxlen)
           ext  == Extension(E)
           stem == Stem(E)
           suf  == <<40>> \o DecStr(dupn) \o <<41>>
       IN  \E k \in 0..Len(stem) :
              /\ out_str = SubSeq(stem, 1, k) \o suf \o ext
              /\ Len(out_str) <= maxlen
              /\ (k < Len(stem) => Len(out_str) = maxlen)

\* C8: with dupn = 0 and an escaped form that fits in maxlen, the result is
\* the input with each rejected byte replaced in place by '%' and its two
\* lowercase hex digits; a name with no rejected byte comes back unchanged.
C8_EscapedInPlace ==
    (pc = "done" /\ dupn = 0 /\ Len(Escaped(in_str)) <= maxlen)
    => /\ out_str = Escaped(in_str)
       /\ (~HasRejected(in_str) => out_str = in_str)

\* a control byte below 0x10 and a punctuation byte were both escaped
C8_Witness ==
    /\ pc = "done"
    /\ dupn = 0
    /\ Len(Escaped(in_str)) <= maxlen
    /\ \E i, j \in 1..Len(in_str) : in_str[i] = 10 /\ in_str[j] = 60
    /\ Len(out_str) = Len(in_str) + 4

\* C10: with dupn = 0, a name whose escaped form has no '.' and is longer
\* than maxlen comes back as exactly the first maxlen bytes of that form.
C10_PlainTruncation ==
    (pc = "done" /\ dupn = 0 /\ LastDot(Escaped(in_str)) = 0 /\ Len(Escaped(in_str)) > maxlen)
    => /\ out_str = SubSeq(Escaped(in_str), 1, maxlen)
       /\ Len(out_str) = maxlen
       /\ LastDot(out_str) = 0

\* the documented example "nodotnamehere" cut to 5 bytes
C10_Witness ==
    /\ pc = "done"
    /\ dupn = 0
    /\ in_str = <<110, 111, 100, 111, 116, 110, 97, 109, 101, 104, 101, 114, 101>>
    /\ maxlen = 5
    /\ out_str = <<110, 111, 100, 111, 116>>

-----------------------------------------------------------------------------
(* The documented contract of the registry *)

\* s with its ASCII capital letters replaced by the small ones
CaseFold(s) == [i \in 1..Len(s) |-> IF s[i] \in 65..90 THEN s[i] + 32 ELSE s[i]]

\* a comes before b, or equals it, in the byte-wise dictionary order
LexLeq(a, b) ==
    \/ IsPrefix(a, b)
    \/ \E i \in 1..Min(Len(a), Len(b)) :
          /\ SubSeq(a, 1, i - 1) = SubSeq(b, 1, i - 1)
          /\ a[i] < b[i]

\* the filter name of the i-th entry of the registry
NameOfEntry(i) == FilterNames[registered_eo_tables[i].proto_id]

RegistryIndexes == 1..Len(registered_eo_tables)

\* C3: after any sequence of registrations the registry is in non-decreasing
\* order of the filter names compared ignoring case, and eo_iterate_tables
\* calls the visitor exactly once per entry, in that order.
C3_SortedAndVisitedInOrder ==
    /\ \A i, j \in RegistryIndexes :
          i < j => LexLeq(CaseFold(NameOfEntry(i)), CaseFold(NameOfEntry(j)))
    /\ last.fn = "eo_iterate_tables" =>
          /\ Len(visited) = Len(registered_eo_tables)
          /\ \A i \in RegistryIndexes :
                /\ visited[i].data = registered_eo_tables[i].addr
                /\ Cardinality({k \in 1..Len(visited) :
                                   visited[k].data = registered_eo_tables[i].addr}) = 1

\* "a", "Ab", "ac" were registered last to first and then iterated over
C3_Witness ==
    /\ last.fn = "eo_iterate_tables"
    /\ Len(registered_eo_tables) = 3
    /\ Len(visited) = 3
    /\ <<NameOfEntry(1), NameOfEntry(2), NameOfEntry(3)>> = << <<97>>, <<65, 98>>, <<97, 99>> >>
    /\ <<visited[1].data, visited[2].data, visited[3].data>> = <<3, 2, 1>>

\* C4: get_eo_by_name returns an entry of the protocol whose filter name is
\* exactly the name asked for when that protocol is registered, and NULL for
\* every other name, also one that differs from a registered name in case only.
C4_LookupByExactName ==
    last.fn = "get_eo_by_name" =>
        LET owners == {p \in ProtoIds :
                          /\ FilterNames[p] = last.name
                          /\ \E i \in RegistryIndexes : registered_eo_tables[i].proto_id = p}
        IN  IF owners = {}
            THEN last.ret = 0
            ELSE /\ last.ret # 0
                 /\ get_eo_proto_id(last.ret) \in owners

\* "AB" is looked up while "Ab" is registered, behind another entry: NULL
C4_Witness ==
    /\ last.fn = "get_eo_by_name"
    /\ last.name = <<65, 66>>
    /\ last.ret = 0
    /\ Len(registered_eo_tables) >= 2
    /\ \E i \in RegistryIndexes : i > 1 /\ NameOfEntry(i) = <<65, 98>>

\* C5: no two entries of the registry have the same tap_listen_str, whatever
\* the registrations were, repeated ones included.
C5_UniqueListenerNames ==
    \A i, j \in RegistryIndexes :
        i # j => registered_eo_tables[i].tap_listen_str # registered_eo_tables[j].tap_listen_str

\* C5 as amended: no two entries have the same tap_listen_str as long as no
\* protocol was registered twice; two entries with the same name are two
\* registrations of one protocol.
C5_UniqueUnlessRegisteredTwice ==
    \A i, j \in RegistryIndexes :
        (i # j /\ registered_eo_tables[i].tap_listen_str = registered_eo_tables[j].tap_listen_str)
            => registered_eo_tables[i].proto_id = registered_eo_tables[j].proto_id

\* three different protocols are registered, under three different names
C5_Witness ==
    /\ Len(registered_eo_tables) = 3
    /\ Cardinality({registered_eo_tables[i].proto_id : i \in RegistryIndexes}) = 3
    /\ Cardinality({registered_eo_tables[i].tap_listen_str : i \in RegistryIndexes}) = 3

\* the list with its k-th element taken out
Without(list, k) == SubSeq(list, 1, k - 1) \o SubSeq(list, k + 1, Len(list))

\* C9: register_export_object with a null packet callback ends in the
\* assertion failure and changes neither the registry nor the taps; with a
\* callback it adds exactly one record and returns the tap token of
\* "<filter-name>_eo".
C9_NullCallbackAsserts ==
    [][ last'.fn = "register_export_object" =>
          IF last'.eo_func = NULL
          THEN /\ aborted'
               /\ registered_eo_tables' = registered_eo_tables
               /\ tap_dissector_list' = tap_dissector_list
          ELSE /\ ~aborted'
               /\ Len(registered_eo_tables') = Len(registered_eo_tables) + 1
               /\ \E k \in 1..Len(registered_eo_tables') :
                     /\ Without(registered_eo_tables', k) = registered_eo_tables
                     /\ registered_eo_tables'[k].proto_id = last'.proto_id
                     /\ registered_eo_tables'[k].eo_func = last'.eo_func
                     /\ registered_eo_tables'[k].tap_listen_str
                            = FilterNames[last'.proto_id] \o <<95, 101, 111>>
               /\ last'.ret \in 1..Len(tap_dissector_list')
               /\ tap_dissector_list'[last'.ret] = FilterNames[last'.proto_id] \o <<95, 101, 111>>
      ]_vars

\* a registration with a callback was followed by one without
C9_Witness ==
    /\ aborted
    /\ last.fn = "register_export_object"
    /\ last.eo_func = NULL
    /\ Len(registered_eo_tables) >= 1
    /\ Len(tap_dissector_list) >= 1

====
